---- MODULE Spec2Model ----
(***************************************************************************)
(* UPSC Samachar: the news aggregation function (netlify/functions/news.js)*)
(* and the service worker (public/sw.js).                                  *)
(*                                                                         *)
(* Text is a sequence of one-character strings, so that case folding, tag  *)
(* stripping, truncation and substring search are computed character by    *)
(* character as the JavaScript string methods compute them.                *)
(***************************************************************************)
EXTENDS Integers, Sequences, FiniteSets, TLC

(***************************************************************************)
(* JavaScript string primitives used by news.js                            *)
(***************************************************************************)
Lower == <<"a","b","c","d","e","f","g","h","i","j","k","l","m","n","o","p","q","r","s","t","u","v","w","x","y","z">>
Upper == <<"A","B","C","D","E","F","G","H","I","J","K","L","M","N","O","P","Q","R","S","T","U","V","W","X","Y","Z">>
Digit == <<"0","1","2","3","4","5","6","7","8","9">>

Min(a, b) == IF a < b THEN a ELSE b

\* position of character c in s, 0 when absent
IndexOf(c, s) ==
  IF \E i \in 1..Len(s) : s[i] = c
  THEN CHOOSE i \in 1..Len(s) : s[i] = c /\ \A j \in 1..(i-1) : s[j] # c
  ELSE 0

LowerOf == [c \in {Upper[i] : i \in 1..Len(Upper)} |-> Lower[IndexOf(c, Upper)]]

\* String.prototype.toLowerCase on ASCII text
toLowerCase(s) ==
  [i \in 1..Len(s) |-> IF s[i] \in DOMAIN LowerOf THEN LowerOf[s[i]] ELSE s[i]]

\* String.prototype.includes
includes(text, k) ==
  \E i \in 0..(Len(text) - Len(k)) : SubSeq(text, i + 1, i + Len(k)) = k

\* String.prototype.slice(0, n)
slice(s, n) == SubSeq(s, 1, Min(n, Len(s)))

\* the characters of s at the positions that satisfy Keep, in order
keepAt(s, Keep(_)) ==
  LET at == [i \in 1..Len(s) |-> <<i, s[i]>>]
      test(p) == Keep(p[1])
      kept == SelectSeq(at, test)
  IN  [i \in 1..Len(kept) |-> kept[i][2]]

\* .replace(/<[^>]*>/g, ""): a tag runs from a "<" to the first ">" after it, so
\* position i lies in a tag when some "<" at or before i has no ">" between
\* itself and i, and a ">" follows at or after i
stripTags(s) ==
  LET inTag(i) ==
        /\ \E j \in 1..i : s[j] = "<" /\ \A m \in j..(i-1) : s[m] # ">"
        /\ \E m \in i..Len(s) : s[m] = ">"
      outside(i) == ~inTag(i)
  IN  keepAt(s, outside)

\* String.prototype.trim
trim(s) ==
  LET ink == {i \in 1..Len(s) : s[i] # " "}
  IN  IF ink = {} THEN <<>>
      ELSE SubSeq(s, CHOOSE i \in ink : \A j \in ink : i <= j,
                     CHOOSE i \in ink : \A j \in ink : i >= j)

\* .replace(/\s+/g, " "): of a run of white space the first character stays
collapseSpace(s) ==
  LET first(i) == ~(s[i] = " " /\ i > 1 /\ s[i-1] = " ")
  IN  keepAt(s, first)

\* .replace(/[^a-z0-9]/g, "")
LowerAlnum == {Lower[i] : i \in 1..Len(Lower)} \cup {Digit[i] : i \in 1..Len(Digit)}
IsLowerAlnum(c) == c \in LowerAlnum
keepLowerAlnum(s) == SelectSeq(s, IsLowerAlnum)

\* .replace(/[^a-zA-Z0-9]/g, "")
IsAlnum(c) == c \in LowerAlnum \/ c \in DOMAIN LowerOf
keepAlnum(s) == SelectSeq(s, IsAlnum)

(***************************************************************************)
(* Topic taxonomy                                                          *)
(***************************************************************************)
\* news.js:50-59
UPSC_TOPICS ==
  <<
    [topic |-> "Polity & Governance",
     keywords |->
      <<<<"p","a","r","l","i","a","m","e","n","t">>, <<"c","o","n","s","t","i","t","u","t","i","o","n">>,
        <<"s","u","p","r","e","m","e"," ","c","o","u","r","t">>, <<"h","i","g","h"," ","c","o","u","r","t">>,
        <<"e","l","e","c","t","i","o","n">>, <<"a","m","e","n","d","m","e","n","t">>,
        <<"b","i","l","l">>, <<"a","c","t">>,
        <<"m","i","n","i","s","t","r","y">>, <<"g","o","v","e","r","n","m","e","n","t">>,
        <<"c","a","b","i","n","e","t">>, <<"p","r","e","s","i","d","e","n","t">>,
        <<"g","o","v","e","r","n","o","r">>, <<"l","o","k"," ","s","a","b","h","a">>,
        <<"r","a","j","y","a"," ","s","a","b","h","a">>, <<"j","u","d","i","c","i","a","r","y">>,
        <<"p","a","n","c","h","a","y","a","t">>, <<"g","o","v","e","r","n","a","n","c","e">>,
        <<"r","e","f","o","r","m">>, <<"p","o","l","i","c","y">>,
        <<"c","o","m","m","i","s","s","i","o","n">>, <<"o","r","d","i","n","a","n","c","e">>>>],
    [topic |-> "Economy",
     keywords |->
      <<<<"g","d","p">>, <<"i","n","f","l","a","t","i","o","n">>,
        <<"r","b","i">>, <<"s","e","b","i">>,
        <<"b","u","d","g","e","t">>, <<"f","i","s","c","a","l">>,
        <<"m","o","n","e","t","a","r","y">>, <<"r","e","p","o"," ","r","a","t","e">>,
        <<"e","c","o","n","o","m","y">>, <<"t","r","a","d","e">>,
        <<"e","x","p","o","r","t">>, <<"i","m","p","o","r","t">>,
        <<"f","d","i">>, <<"s","t","a","r","t","u","p">>,
        <<"m","s","m","e">>, <<"a","g","r","i","c","u","l","t","u","r","e">>,
        <<"m","s","p">>, <<"n","i","t","i"," ","a","a","y","o","g">>,
        <<"e","c","o","n","o","m","i","c">>, <<"t","a","x">>,
        <<"g","s","t">>, <<"g","r","o","w","t","h">>,
        <<"m","a","r","k","e","t">>, <<"r","u","p","e","e">>,
        <<"i","n","v","e","s","t","m","e","n","t">>, <<"r","e","v","e","n","u","e">>,
        <<"f","i","n","a","n","c","e">>, <<"b","a","n","k">>>>],
    [topic |-> "Environment & Ecology",
     keywords |->
      <<<<"c","l","i","m","a","t","e">>, <<"b","i","o","d","i","v","e","r","s","i","t","y">>,
        <<"f","o","r","e","s","t">>, <<"w","i","l","d","l","i","f","e">>,
        <<"p","o","l","l","u","t","i","o","n">>, <<"c","a","r","b","o","n">>,
        <<"e","m","i","s","s","i","o","n">>, <<"r","e","n","e","w","a","b","l","e">>,
        <<"s","o","l","a","r">>, <<"o","z","o","n","e">>,
        <<"r","a","m","s","a","r">>, <<"t","i","g","e","r">>,
        <<"e","l","e","p","h","a","n","t">>, <<"c","o","r","a","l">>,
        <<"w","e","t","l","a","n","d">>, <<"d","e","f","o","r","e","s","t","a","t","i","o","n">>,
        <<"n","e","t"," ","z","e","r","o">>, <<"c","o","p">>,
        <<"i","p","c","c">>, <<"e","c","o","l","o","g","y">>,
        <<"c","o","n","s","e","r","v","a","t","i","o","n">>, <<"e","n","v","i","r","o","n","m","e","n","t">>,
        <<"w","a","t","e","r">>, <<"r","i","v","e","r">>,
        <<"d","r","o","u","g","h","t">>>>],
    [topic |-> "Science & Technology",
     keywords |->
      <<<<"i","s","r","o">>, <<"s","p","a","c","e">>,
        <<"n","a","s","a">>, <<"s","a","t","e","l","l","i","t","e">>,
        <<"a","i">>, <<"a","r","t","i","f","i","c","i","a","l"," ","i","n","t","e","l","l","i","g","e","n","c","e">>,
        <<"q","u","a","n","t","u","m">>, <<"n","u","c","l","e","a","r">>,
        <<"r","e","s","e","a","r","c","h">>, <<"t","e","c","h","n","o","l","o","g","y">>,
        <<"5","g">>, <<"s","e","m","i","c","o","n","d","u","c","t","o","r">>,
        <<"d","r","o","n","e">>, <<"c","y","b","e","r">>,
        <<"d","i","g","i","t","a","l">>, <<"b","l","o","c","k","c","h","a","i","n">>,
        <<"g","e","n","o","m","i","c","s">>, <<"i","n","n","o","v","a","t","i","o","n">>,
        <<"p","a","t","e","n","t">>, <<"r","o","c","k","e","t">>,
        <<"l","a","u","n","c","h">>>>],
    [topic |-> "International Relations",
     keywords |->
      <<<<"b","i","l","a","t","e","r","a","l">>, <<"t","r","e","a","t","y">>,
        <<"s","u","m","m","i","t">>, <<"u","n","i","t","e","d"," ","n","a","t","i","o","n","s">>,
        <<"w","o","r","l","d"," ","b","a","n","k">>, <<"i","m","f">>,
        <<"w","t","o">>, <<"g","2","0">>,
        <<"b","r","i","c","s">>, <<"s","c","o">>,
        <<"a","s","e","a","n">>, <<"n","a","t","o">>,
        <<"g","e","o","p","o","l","i","t","i","c","s">>, <<"d","i","p","l","o","m","a","c","y">>,
        <<"f","o","r","e","i","g","n">>, <<"s","a","n","c","t","i","o","n","s">>,
        <<"a","g","r","e","e","m","e","n","t">>, <<"a","l","l","i","a","n","c","e">>,
        <<"v","i","s","i","t">>, <<"m","o","u">>,
        <<"q","u","a","d">>>>],
    [topic |-> "Social Issues",
     keywords |->
      <<<<"p","o","v","e","r","t","y">>, <<"w","e","l","f","a","r","e">>,
        <<"s","c","h","e","m","e">>, <<"e","d","u","c","a","t","i","o","n">>,
        <<"h","e","a","l","t","h">>, <<"n","u","t","r","i","t","i","o","n">>,
        <<"w","o","m","e","n">>, <<"c","h","i","l","d">>,
        <<"t","r","i","b","a","l">>, <<"d","a","l","i","t">>,
        <<"m","i","n","o","r","i","t","y">>, <<"r","e","s","e","r","v","a","t","i","o","n">>,
        <<"c","a","s","t","e">>, <<"d","i","s","a","b","i","l","i","t","y">>,
        <<"e","l","d","e","r","l","y">>, <<"h","u","n","g","e","r">>,
        <<"l","i","t","e","r","a","c","y">>, <<"i","n","e","q","u","a","l","i","t","y">>,
        <<"y","o","j","a","n","a">>, <<"p","r","o","g","r","a","m","m","e">>>>],
    [topic |-> "Defence & Security",
     keywords |->
      <<<<"d","e","f","e","n","c","e">>, <<"m","i","l","i","t","a","r","y">>,
        <<"a","r","m","y">>, <<"n","a","v","y">>,
        <<"a","i","r"," ","f","o","r","c","e">>, <<"b","o","r","d","e","r">>,
        <<"s","e","c","u","r","i","t","y">>, <<"t","e","r","r","o","r","i","s","m">>,
        <<"n","a","x","a","l">>, <<"i","n","s","u","r","g","e","n","c","y">>,
        <<"w","e","a","p","o","n">>, <<"m","i","s","s","i","l","e">>,
        <<"d","r","d","o">>, <<"i","a","f">>,
        <<"c","o","a","s","t"," ","g","u","a","r","d">>, <<"e","x","e","r","c","i","s","e">>,
        <<"c","o","m","b","a","t">>, <<"s","t","r","a","t","e","g","i","c">>>>],
    [topic |-> "Infrastructure & Development",
     keywords |->
      <<<<"r","a","i","l","w","a","y">>, <<"h","i","g","h","w","a","y">>,
        <<"p","o","r","t">>, <<"a","i","r","p","o","r","t">>,
        <<"m","e","t","r","o">>, <<"s","m","a","r","t"," ","c","i","t","y">>,
        <<"u","r","b","a","n">>, <<"h","o","u","s","i","n","g">>,
        <<"c","o","n","s","t","r","u","c","t","i","o","n">>, <<"e","n","e","r","g","y">>,
        <<"p","o","w","e","r">>, <<"g","r","i","d">>,
        <<"i","n","f","r","a","s","t","r","u","c","t","u","r","e">>, <<"e","x","p","r","e","s","s","w","a","y">>,
        <<"c","o","r","r","i","d","o","r">>, <<"p","r","o","j","e","c","t">>,
        <<"b","r","i","d","g","e">>, <<"d","a","m">>>>]
  >>

RECURSIVE flat(_)
flat(ss) == IF ss = <<>> THEN <<>> ELSE Head(ss) \o flat(Tail(ss))

\* news.js:61
ALL_KEYWORDS == flat([i \in 1..Len(UPSC_TOPICS) |-> UPSC_TOPICS[i].keywords])

some(keywords, text) == \E i \in 1..Len(keywords) : includes(text, keywords[i])

\* detectTopics without the cut to three labels
detectTopics_NoCap(title, description) ==
  LET text == toLowerCase(title \o <<" ">> \o description)
      hit(t) == some(t.keywords, text)
      hits == SelectSeq(UPSC_TOPICS, hit)
      matched == [i \in 1..Len(hits) |-> hits[i].topic]
  IN  IF Len(matched) > 0 THEN matched ELSE <<"General">>

\* news.js:63-70
detectTopics(title, description) ==
  LET text == toLowerCase(title \o <<" ">> \o description)
      hit(t) == some(t.keywords, text)
      hits == SelectSeq(UPSC_TOPICS, hit)
      matched == [i \in 1..Len(hits) |-> hits[i].topic]
  IN  IF Len(matched) > 0 THEN SubSeq(matched, 1, Min(3, Len(matched)))
      ELSE <<"General">>

\* isRelevant with an empty keyword in the list, which every text includes
isRelevant_EmptyKeyword(title, description) ==
  LET text == toLowerCase(title \o <<" ">> \o description)
  IN  some(ALL_KEYWORDS \o << <<>> >>, text)

\* news.js:72-75
isRelevant(title, description) ==
  LET text == toLowerCase(title \o <<" ">> \o description)
  IN  \/ some(ALL_KEYWORDS, text)
      \/ includes(text, <<"i","n","d","i","a">>)
      \/ includes(text, <<"g","o","v","e","r","n","m","e","n","t">>)

(***************************************************************************)
(* Article identifier: Buffer.from(s).toString("base64") on ASCII text     *)
(***************************************************************************)
\* the printable ASCII characters, code 32 first ("grave" holds the place of
\* code 96, which a TLA+ string cannot contain)
Printable ==
  <<" ","!">> \o <<"\"">> \o <<"#","$","%","&","'","(",")","*","+",",","-",".","/","0","1","2","3","4","5","6",
    "7","8","9",":",";","<","=",">","?">> \o
  <<"@">> \o Upper \o <<"[">> \o <<"\\">> \o <<"]","^","_">> \o <<"grave">> \o
  Lower \o <<"{","|","}","~">>

Code == [c \in {Printable[i] : i \in 1..Len(Printable)} |->
           31 + IndexOf(c, Printable)]

Base64Alphabet == Upper \o Lower \o Digit \o <<"+","/">>

\* three bytes make four characters; a last group of one or two bytes is
\* padded with "="
base64(s) ==
  LET n == Len(s)
      byte(k) == IF k <= n THEN Code[s[k]] ELSE 0
      char(p) ==
        LET g == (p - 1) \div 4
            q == (p - 1) % 4
            b1 == byte(3 * g + 1)
            b2 == byte(3 * g + 2)
            b3 == byte(3 * g + 3)
        IN  IF q = 0 THEN Base64Alphabet[(b1 \div 4) + 1]
            ELSE IF q = 1 THEN Base64Alphabet[((b1 % 4) * 16 + (b2 \div 16)) + 1]
            ELSE IF q = 2 THEN
              IF 3 * g + 2 > n THEN "="
              ELSE Base64Alphabet[((b2 % 16) * 4 + (b3 \div 64)) + 1]
            ELSE IF 3 * g + 3 > n THEN "=" ELSE Base64Alphabet[(b3 % 64) + 1]
  IN  [p \in 1..(4 * ((n + 2) \div 3)) |-> char(p)]

\* news.js:114
IdSourceLen == 80
IdLen == 24
articleId(link, title) ==
  slice(keepAlnum(base64(slice(IF link # <<>> THEN link ELSE title, IdSourceLen))), IdLen)

\* news.js:159
KeyLen == 60
\* the key without the case fold
dedupKey_CaseSensitive(title) == slice(keepLowerAlnum(title), KeyLen)

dedupKey(title) == slice(keepLowerAlnum(toLowerCase(title)), KeyLen)

(***************************************************************************)
(* Dates.  The text of a date field is "none" (the field is absent or      *)
(* empty), "junk" (text that Date cannot parse) or "date" (text denoting   *)
(* the instant t).  A Date object is an instant or the invalid date (NaN). *)
(***************************************************************************)
NoDate == [k |-> "none", t |-> 0]
JunkDate == [k |-> "junk", t |-> 0]
DateText(t) == [k |-> "date", t |-> t]

\* new Date(text)
newDate(text) == IF text.k = "date" THEN [nan |-> FALSE, t |-> text.t]
                 ELSE [nan |-> TRUE, t |-> 0]

\* Date.prototype.toISOString: RangeError on the invalid date
toISOStringThrows(d) == d.nan
toISOString(d) == DateText(d.t)

\* a || b on strings: the first non-empty one
OrElse(a, b) == IF a.k # "none" THEN a ELSE b
OrElseText(a, b) == IF a # <<>> THEN a ELSE b

(***************************************************************************)
(* parseFeed: one entry of a feed document to an article                   *)
(***************************************************************************)
\* news.js:105
DescLen == 500
\* items.slice(0, 20), news.js:102: the number of entries parseFeed looks at.
\* The model keeps it small and serves documents with more entries than that.
FeedCap == 2

\* news.js:102-126, the callback of items.map: "null", "throw" or an article
mapItem(item, source, now) ==
  LET title == trim(stripTags(item.title))
      rawDesc == OrElseText(item.description,
                   OrElseText(item.summary, item.contentEncoded))
      description == slice(trim(collapseSpace(stripTags(rawDesc))), DescLen)
      link == item.link
      pubDateRaw == OrElse(item.pubDate,
                      OrElse(item.updated,
                        OrElse(item.dcDate, toISOString([nan |-> FALSE, t |-> now]))))
  IN  IF title = <<>> \/ ~isRelevant(title, description)
        THEN [tag |-> "null"]
      ELSE IF toISOStringThrows(newDate(pubDateRaw))
        THEN [tag |-> "throw"]
      ELSE [tag |-> "article",
            article |->
              [id |-> articleId(link, title),
               title |-> title,
               description |-> description,
               link |-> link,
               pubDate |-> toISOString(newDate(pubDateRaw)),
               source |-> source,
               topics |-> detectTopics(title, description)]]

(***************************************************************************)
(* Feed source registry.  The program lists three sources with fourteen    *)
(* endpoints; the model keeps two sources and three endpoints, one source  *)
(* with two feeds, so that the order of RSS_SOURCES.flatMap is visible.    *)
(***************************************************************************)
RSS_SOURCES ==
  << [id |-> "hindu", feeds |-> <<"hindu/national", "hindu/opinion">>],
     [id |-> "et",    feeds |-> <<"et/economy">>] >>

SourceIds == {RSS_SOURCES[i].id : i \in 1..Len(RSS_SOURCES)}

\* RSS_SOURCES.flatMap(source => source.feeds.map(url => ...)): the order of
\* allPromises, and so of the results of Promise.allSettled
Endpoints ==
  flat([i \in 1..Len(RSS_SOURCES) |->
          [j \in 1..Len(RSS_SOURCES[i].feeds) |->
             [source |-> RSS_SOURCES[i].id, url |-> RSS_SOURCES[i].feeds[j]]]])

E == 1..Len(Endpoints)

(***************************************************************************)
(* The aggregation of exports.handler                                      *)
(***************************************************************************)
\* deduped.slice(0, 250), news.js:182: the length the top-level list is cut to.
\* The model keeps it below the number of articles its endpoints can bring
\* together (Len(Endpoints) * FeedCap), as 250 is below 14 * 20.
MaxArticles == 3

\* a merge that stops at the first endpoint that brought nothing
RECURSIVE mergeResults_StopAtEmpty(_)
mergeResults_StopAtEmpty(results) ==
  IF results = <<>> THEN <<>>
  ELSE IF Head(results).status # "fulfilled" \/ Head(results).value = <<>> THEN <<>>
  ELSE Head(results).value \o mergeResults_StopAtEmpty(Tail(results))

\* news.js:152-153
RECURSIVE mergeResults(_)
mergeResults(results) ==
  IF results = <<>> THEN <<>>
  ELSE (IF Head(results).status = "fulfilled" THEN Head(results).value ELSE <<>>)
         \o mergeResults(Tail(results))

\* news.js:156-162: filter with the set of keys seen so far
RECURSIVE dedupeFrom(_, _)
dedupeFrom(articles, seen) ==
  IF articles = <<>> THEN <<>>
  ELSE LET a == Head(articles)
           key == dedupKey(a.title)
       IN  IF a.title = <<>> \/ key \in seen
             THEN dedupeFrom(Tail(articles), seen)
             ELSE <<a>> \o dedupeFrom(Tail(articles), seen \cup {key})

reverse(s) == [i \in 1..Len(s) |-> s[Len(s) + 1 - i]]

\* a filter that keeps the last article of a key instead of the first
dedupe_KeepLast(articles) == reverse(dedupeFrom(reverse(articles), {}))

\* repeated runs: what an earlier invocation of this process was given and
\* returned; no statement of news.js reads it
VARIABLE prev

\* a set of seen keys that lives on from one invocation to the next
dedupe_SeenKept(articles) ==
  dedupeFrom(articles,
             IF prev.body = <<>> THEN {}
             ELSE {dedupKey(prev.body.articles[i].title) :
                     i \in 1..Len(prev.body.articles)})

\* news.js:156: const seen = new Set(), made anew by every invocation
dedupe(articles) == dedupeFrom(articles, {})

\* the comparator with its operands exchanged
compare_Ascending(a, b) == newDate(a.pubDate).t - newDate(b.pubDate).t

\* news.js:164: the comparator, new Date(b.pubDate) - new Date(a.pubDate)
compare(a, b) == newDate(b.pubDate).t - newDate(a.pubDate).t

\* Array.prototype.sort is stable: x goes behind the elements it does not precede
RECURSIVE insertSorted(_, _)
insertSorted(x, sorted) ==
  IF sorted = <<>> THEN <<x>>
  ELSE IF compare(Head(sorted), x) <= 0
         THEN <<Head(sorted)>> \o insertSorted(x, Tail(sorted))
         ELSE <<x>> \o sorted

RECURSIVE sort(_)
sort(articles) ==
  IF articles = <<>> THEN <<>>
  ELSE insertSorted(articles[Len(articles)], sort(SubSeq(articles, 1, Len(articles) - 1)))

\* a key only for a source that has an article
grouped_Lazy(deduped) ==
  [s \in {deduped[i].source : i \in 1..Len(deduped)} |->
     LET from(a) == a.source = s IN SelectSeq(deduped, from)]

\* news.js:166-168
grouped(deduped) ==
  [s \in SourceIds |-> LET from(a) == a.source = s IN SelectSeq(deduped, from)]

\* news.js:170-176: a key exists only for a topic that some article carries
labels(a) == {a.topics[i] : i \in 1..Len(a.topics)}
\* an article pushed to the group of its first label only
topicGrouped_FirstLabel(deduped) ==
  [t \in UNION {labels(deduped[i]) : i \in 1..Len(deduped)} |->
     LET has(a) == t = a.topics[1] IN SelectSeq(deduped, has)]

topicGrouped(deduped) ==
  [t \in UNION {labels(deduped[i]) : i \in 1..Len(deduped)} |->
     LET has(a) == t \in labels(a) IN SelectSeq(deduped, has)]

\* the top-level list without the cut
top_Uncut(deduped) == deduped

\* news.js:182
top(deduped) == slice(deduped, MaxArticles)

\* news.js:155-190: the body of the 200 response but for lastUpdated
aggregate(results) ==
  LET deduped == sort(dedupe(mergeResults(results)))
  IN  [articles     |-> top(deduped),
       grouped      |-> grouped(deduped),
       topicGrouped |-> topicGrouped(deduped),
       lastUpdated  |-> NoDate,
       total        |-> Len(deduped)]

(***************************************************************************)
(* Feed documents the endpoints may serve                                  *)
(***************************************************************************)
\* an <item> of an RSS channel
Item(title, description, link, pubDate) ==
  [title |-> title, description |-> description, summary |-> <<>>,
   contentEncoded |-> <<>>, link |-> link,
   pubDate |-> pubDate, updated |-> NoDate, dcDate |-> NoDate]

\* an <entry> of an Atom feed
Entry(title, summary, link, updated) ==
  [title |-> title, description |-> <<>>, summary |-> summary,
   contentEncoded |-> <<>>, link |-> link,
   pubDate |-> NoDate, updated |-> updated, dcDate |-> NoDate]

Rss(entries) == [shape |-> "rss", entries |-> entries]
Atom(entries) == [shape |-> "atom", entries |-> entries]
\* well-formed XML that is neither an RSS channel nor an Atom feed
OtherXml == [shape |-> "other", entries |-> <<>>]
\* text that xml2js rejects
Malformed == [shape |-> "malformed", entries |-> <<>>]

\* the instants of the clock and of the date fields
MaxTime == 3
Times == 1..MaxTime

LongTitleA ==
  <<"I","n","d","i","a"," ","b","u","d","g","e","t"," ","2","0","2","6",":"," ","w",
    "h","a","t"," ","t","h","e"," ","f","i","r","s","t"," ","f","u","l","l","-","y",
    "e","a","r"," ","p","l","a","n"," ","m","e","a","n","s"," ","f","o","r"," ","s",
    "t","a","t","e","s"," ","a","n","d"," ","f","o","r"," ","t","a","x","e","s">>
LongTitleB ==
  <<"I","N","D","I","A"," ","B","U","D","G","E","T"," ","2","0","2","6"," ","-"," ",
    "W","h","a","t"," ","t","h","e"," ","f","i","r","s","t"," ","f","u","l","l","-",
    "y","e","a","r"," ","p","l","a","n"," ","m","e","a","n","s"," ","f","o","r"," ",
    "s","t","a","t","e","s"," ","a","n","d"," ","f","o","r"," ","t","o","w","n","s">>

GstBill ==
  Item(<<"G","S","T"," ","b","i","l","l">>, <<>>,
       <<"h","t","t","p","s",":","/","/","w","w","w",".","t","h","e","h","i","n","d","u",".","c","o","m","/","1">>, DateText(2))
TigerCensus ==
  Item(<<"<","b",">","T","i","g","e","r","<","/","b",">"," ","c","e","n","s","u","s">>,
       <<"c","o","u","n","t"," "," ","o","f"," ","<","i",">","b","i","g"," ","c","a","t","s","<","/","i",">">>, <<>>, DateText(3))
IndiaWins ==
  Item(<<"I","n","d","i","a"," ","w","i","n","s">>, <<>>,
       <<"h","t","t","p","s",":","/","/","w","w","w",".","t","h","e","h","i","n","d","u",".","c","o","m","/","3">>, DateText(1))
GstBillEt ==
  Entry(<<"g","s","t"," ","B","I","L","L","!">>, <<"t","a","x">>,
        <<"h","t","t","p","s",":","/","/","e","c","o","n","o","m","i","c","t","i","m","e",
    "s",".","i","n","d","i","a","t","i","m","e","s",".","c","o","m","/","1">>, DateText(1))
FilmReview ==
  Entry(<<"F","i","l","m"," ","r","e","v","i","e","w">>, <<"c","i","n","e","m","a">>, <<>>, DateText(3))
RupeeDips == Item(<<"R","u","p","e","e"," ","d","i","p","s">>, <<>>, <<>>, NoDate)
BudgetA == Item(LongTitleA, <<>>, <<>>, DateText(1))
BudgetB == Item(LongTitleB, <<>>, <<>>, DateText(3))
ArmyDrone ==
  [Item(<<"A","r","m","y"," ","d","r","o","n","e"," ","l","a","u","n","c","h"," ","a","t"," ","p","o","r","t">>, <<"s","o","l","a","r">>, <<>>, NoDate)
     EXCEPT !.dcDate = DateText(2)]
Untitled == Item(<<"<","i","m","g",">">>, <<"I","n","d","i","a">>, <<>>, DateText(2))
RupeeJunk == Item(<<"R","u","p","e","e"," ","g","a","i","n","s">>, <<>>, <<>>, JunkDate)
RbiNote == Item(<<"R","B","I"," ","n","o","t","e">>, <<>>, <<>>, NoDate)

RawItems ==
  { GstBill, TigerCensus, IndiaWins, GstBillEt, FilmReview, RupeeDips,
    BudgetA, BudgetB, ArmyDrone, Untitled, RupeeJunk, RbiNote }

\* the documents of the aggregation runs
Docs ==
  { Rss(<<>>),
    Rss(<<GstBill, TigerCensus, IndiaWins>>),
    Atom(<<GstBillEt, FilmReview>>),
    Rss(<<RupeeDips, BudgetA>>),
    Rss(<<BudgetB, ArmyDrone>>),
    Rss(<<Untitled, RupeeJunk>>),
    OtherXml,
    Malformed }

\* the documents of the single-feed runs: every sequence of at most MaxDocLen of
\* these entries, in either dialect
FeedItems ==
  { GstBill, IndiaWins, FilmReview, RupeeDips, ArmyDrone, Untitled, RupeeJunk }
MaxDocLen == FeedCap + 1
FeedDocs ==
  LET seqs == UNION {[1..n -> FeedItems] : n \in 0..MaxDocLen}
  IN  {Rss(s) : s \in seqs} \cup {Atom(s) : s \in seqs} \cup {OtherXml, Malformed}

\* mapItem tabulated over the entries, so that it is computed once
mapped ==
  [item \in RawItems, source \in SourceIds, now \in Times |-> mapItem(item, source, now)]

\* a parseFeed that maps every entry of the document
parseBody_Uncapped(doc, source, now) ==
  LET items == IF doc.shape \in {"rss", "atom"} THEN doc.entries ELSE <<>>
      results == [i \in 1..Len(items) |-> mapped[items[i], source, now]]
      IsArticle(m) == m.tag = "article"
      kept == SelectSeq(results, IsArticle)
  IN  IF doc.shape = "malformed" THEN <<>>
      ELSE IF \E i \in 1..Len(results) : results[i].tag = "throw" THEN <<>>
      ELSE [i \in 1..Len(kept) |-> kept[i].article]

\* news.js:92-131: the body text to the endpoint's article list; a document that
\* the XML parser rejects, or an entry whose mapping throws, lands in the catch
parseBody(doc, source, now) ==
  LET items == IF doc.shape \in {"rss", "atom"} THEN doc.entries ELSE <<>>
      capped == slice(items, FeedCap)
      results == [i \in 1..Len(capped) |-> mapped[capped[i], source, now]]
      IsArticle(m) == m.tag = "article"
      kept == SelectSeq(results, IsArticle)
  IN  IF doc.shape = "malformed" THEN <<>>
      ELSE IF \E i \in 1..Len(results) : results[i].tag = "throw" THEN <<>>
      ELSE [i \in 1..Len(kept) |-> kept[i].article]

(***************************************************************************)
(* State                                                                   *)
(***************************************************************************)
VARIABLES
  method,     \* event.httpMethod of the invocation, "" before it arrives
  hpc,        \* position of exports.handler: "idle", "await", "done"
  fpc,        \* position of each parseFeed call: "new", "fetch", "text", "settled"
  timer,      \* whether the abort timer of each call is pending
  results,    \* the promise of each call, as Promise.allSettled reports it
  response,   \* what the handler returned
  outcome,    \* history: how each call ended
  order,      \* history: the endpoints in the order their calls settled
  requests,   \* history: the number of HTTP requests sent to each endpoint
  served,     \* history: the document each endpoint delivered as its body
  feed,       \* single-feed runs: the document, source and clock given to parseFeed
  feedOut,    \* single-feed runs: what parseFeed returned
  swEvent,    \* service worker: position and answer of each fetch event
  swCache,    \* service worker: the response cached for the API request, 0 if none
  swPut,      \* service worker: the responses whose cache.put has not finished
  swCount     \* service worker: the number of responses the network has given

\* the variables of the single-feed and of the repeated runs
swvars == <<swEvent, swCache, swPut, swCount>>
others == <<feed, feedOut, prev, swvars>>
vars == <<method, hpc, fpc, timer, results, response, outcome, order, requests,
          served, others>>
hvars == <<method, hpc, fpc, timer, results, response, outcome, order, requests,
           served>>

NoDoc == [shape |-> "none", entries |-> <<>>]
\* news.js:135-140
corsHeaders ==
  [h \in {"Content-Type", "Access-Control-Allow-Origin",
          "Access-Control-Allow-Methods", "Cache-Control"} |->
     CASE h = "Content-Type" -> "application/json"
       [] h = "Access-Control-Allow-Origin" -> "*"
       [] h = "Access-Control-Allow-Methods" -> "GET, OPTIONS"
       [] h = "Cache-Control" -> "public, max-age=300"]

NoResponse == [statusCode |-> 0, headers |-> <<>>, body |-> <<>>]
\* the fetch events of the service worker runs
MaxEvents == 3
Events == 1..MaxEvents
NoEvent == [pc |-> "none", net |-> "none", seen |-> 0, from |-> "none", res |-> 0]
SwIdle ==
  /\ swEvent = [i \in Events |-> NoEvent]
  /\ swCache = 0
  /\ swPut = {}
  /\ swCount = 0

NoRun == [served |-> <<>>, results |-> <<>>, body |-> <<>>]
Pending == [status |-> "pending", value |-> <<>>]

NoFeed == [doc |-> OtherXml, source |-> "", now |-> 0]
NotRun == [returned |-> FALSE, articles |-> <<>>]

HandlerInit ==
  /\ method = ""
  /\ hpc = "idle"
  /\ fpc = [e \in E |-> "new"]
  /\ timer = [e \in E |-> FALSE]
  /\ results = [e \in E |-> Pending]
  /\ response = NoResponse
  /\ outcome = [e \in E |-> "pending"]
  /\ order = <<>>
  /\ requests = [e \in E |-> 0]
  /\ served = [e \in E |-> NoDoc]

Init ==
  /\ HandlerInit
  /\ feed = NoFeed
  /\ feedOut = NotRun
  /\ prev = NoRun
  /\ SwIdle

\* a pre-flight that goes on to fetch the feeds
Options_ThenFetch ==
  /\ hpc = "idle"
  /\ method' = "OPTIONS"
  /\ hpc' = "done"
  /\ response' = [statusCode |-> 204, headers |-> corsHeaders, body |-> <<>>]
  /\ fpc' = [e \in E |-> "fetch"]
  /\ requests' = [e \in E |-> requests[e] + 1]
  /\ UNCHANGED <<timer, results, outcome, order, served, others>>

\* news.js:142-144
Options ==
  /\ hpc = "idle"
  /\ method' = "OPTIONS"
  /\ hpc' = "done"
  /\ response' = [statusCode |-> 204, headers |-> corsHeaders, body |-> <<>>]
  /\ UNCHANGED <<fpc, timer, results, outcome, order, requests, served, others>>

\* news.js:147-150 with 79-87: every parseFeed call runs to its await fetch(...)
\* (timer armed, request sent), then the handler awaits Promise.allSettled
Get ==
  /\ hpc = "idle"
  /\ method' = "GET"
  /\ hpc' = "await"
  /\ fpc' = [e \in E |-> "fetch"]
  /\ timer' = [e \in E |-> TRUE]
  /\ requests' = [e \in E |-> requests[e] + 1]
  /\ UNCHANGED <<results, response, outcome, order, served, others>>

\* the async function returns value: its promise is fulfilled
Settle(e, value, how) ==
  /\ fpc' = [fpc EXCEPT ![e] = "settled"]
  /\ results' = [results EXCEPT ![e] = [status |-> "fulfilled", value |-> value]]
  /\ outcome' = [outcome EXCEPT ![e] = how]
  /\ order' = Append(order, e)

\* fetch rejects (DNS, connection refused or reset): news.js:128-131
FetchRejects(e) ==
  /\ fpc[e] = "fetch"
  /\ Settle(e, <<>>, "neterr")
  /\ UNCHANGED <<method, hpc, timer, response, requests, served, others>>

\* a timer that sends the request again instead of giving the call up
TimerFires_Retry(e) ==
  /\ timer[e]
  /\ IF fpc[e] = "fetch"
       THEN /\ requests' = [requests EXCEPT ![e] = @ + 1]
            /\ UNCHANGED <<fpc, timer, results, outcome, order>>
       ELSE /\ timer' = [timer EXCEPT ![e] = FALSE]
            /\ UNCHANGED <<fpc, results, outcome, order, requests>>
  /\ UNCHANGED <<method, hpc, response, served, others>>

\* the 9 s timer fires, news.js:80: ctrl.abort() rejects a fetch that is still
\* waiting for the response, and does nothing to a call that has returned
TimerFires(e) ==
  /\ timer[e]
  /\ timer' = [timer EXCEPT ![e] = FALSE]
  /\ IF fpc[e] = "fetch"
       THEN Settle(e, <<>>, "timeout")
       ELSE UNCHANGED <<fpc, results, outcome, order>>
  /\ UNCHANGED <<method, hpc, response, requests, served, others>>

\* the response headers arrive, news.js:88-89: clearTimeout, then the status check
HeadersArrive(e, ok) ==
  /\ fpc[e] = "fetch"
  /\ timer' = [timer EXCEPT ![e] = FALSE]
  /\ IF ok
       THEN /\ fpc' = [fpc EXCEPT ![e] = "text"]
            /\ UNCHANGED <<results, outcome, order>>
       ELSE Settle(e, <<>>, "status")
  /\ UNCHANGED <<method, hpc, response, requests, served, others>>

\* the body arrives, news.js:91-131
BodyArrives(e, doc, now) ==
  /\ fpc[e] = "text"
  /\ Settle(e, parseBody(doc, Endpoints[e].source, now),
            IF doc.shape = "malformed" THEN "malformed" ELSE "ok")
  /\ served' = [served EXCEPT ![e] = doc]
  /\ UNCHANGED <<method, hpc, timer, response, requests, others>>

\* response.text() rejects (the connection breaks mid-body): news.js:128-131
BodyFails(e) ==
  /\ fpc[e] = "text"
  /\ Settle(e, <<>>, "neterr")
  /\ UNCHANGED <<method, hpc, timer, response, requests, served, others>>

\* a handler that goes on as soon as one call has settled
Respond_FirstSettled(now) ==
  /\ hpc = "await"
  /\ \E e \in E : results[e].status # "pending"
  /\ hpc' = "done"
  /\ response' = [statusCode |-> 200,
                  headers |-> corsHeaders,
                  body |-> [aggregate([e \in E |-> results[e]])
                              EXCEPT !.lastUpdated = toISOString([nan |-> FALSE, t |-> now])]]
  /\ UNCHANGED <<method, fpc, timer, results, outcome, order, requests, served, others>>

\* Promise.allSettled resolves once every call has settled: news.js:150-190.
\* Nothing between news.js:147 and 190 throws on the lists parseFeed returns, so
\* the catch that answers 500 (news.js:191-197) is never entered.
Respond(now) ==
  /\ hpc = "await"
  /\ \A e \in E : results[e].status # "pending"
  /\ hpc' = "done"
  /\ response' = [statusCode |-> 200,
                  headers |-> corsHeaders,
                  body |-> [aggregate([e \in E |-> results[e]])
                              EXCEPT !.lastUpdated = toISOString([nan |-> FALSE, t |-> now])]]
  /\ UNCHANGED <<method, fpc, timer, results, outcome, order, requests, served, others>>

Next ==
  \/ Options
  \/ Get
  \/ \E e \in E : FetchRejects(e)
  \/ \E e \in E : TimerFires(e)
  \/ \E e \in E, ok \in BOOLEAN : HeadersArrive(e, ok)
  \/ \E e \in E, doc \in Docs, now \in Times : BodyArrives(e, doc, now)
  \/ \E e \in E : BodyFails(e)
  \/ \E now \in Times : Respond(now)

Spec == Init /\ [][Next]_vars

\* the timers and the handler's own continuation run whenever they can; the
\* network owes nothing
FairSpec ==
  /\ Spec
  /\ \A e \in E : WF_vars(TimerFires(e))
  /\ WF_vars(\E now \in Times : Respond(now))

(***************************************************************************)
(* Single-feed runs: parseFeed on one response body                        *)
(***************************************************************************)
FeedInit ==
  /\ HandlerInit
  /\ feed \in [doc : FeedDocs, source : SourceIds, now : Times]
  /\ feedOut = NotRun
  /\ prev = NoRun
  /\ SwIdle

ParseFeed ==
  /\ ~feedOut.returned
  /\ feedOut' = [returned |-> TRUE,
                 articles |-> parseBody(feed.doc, feed.source, feed.now)]
  /\ UNCHANGED <<hvars, feed, prev, swvars>>

FeedNext == ParseFeed

FeedSpec == FeedInit /\ [][FeedNext]_vars

(***************************************************************************)
(* Repeated runs: the process that has answered one invocation answers the *)
(* next.  What lives on is what the module keeps outside exports.handler:  *)
(* RSS_SOURCES, UPSC_TOPICS and ALL_KEYWORDS (news.js:9-61), which no      *)
(* statement assigns or mutates; every other value is local to the call.   *)
(***************************************************************************)
\* the documents and the instants of the repeated runs: two entries without a
\* date, which take the instant at which their document is parsed
RepeatDocs == {Rss(<<RupeeDips>>), Rss(<<RbiNote>>)}
RepeatTimes == {1, MaxTime}

\* exports.handler has returned, news.js:143 or 178-190: its locals are gone and
\* the next event finds the handler as the first did.  remember says whether
\* this run is the one that later runs are compared with.
Return(remember) ==
  /\ hpc = "done"
  /\ prev' = IF remember /\ method = "GET"
               THEN [served |-> served, results |-> results, body |-> response.body]
               ELSE prev
  /\ method' = ""
  /\ hpc' = "idle"
  /\ fpc' = [e \in E |-> "new"]
  /\ timer' = [e \in E |-> FALSE]
  /\ results' = [e \in E |-> Pending]
  /\ response' = NoResponse
  /\ outcome' = [e \in E |-> "pending"]
  /\ order' = <<>>
  /\ requests' = [e \in E |-> 0]
  /\ served' = [e \in E |-> NoDoc]
  /\ UNCHANGED <<feed, feedOut, swvars>>

RepeatNext ==
  \/ Options
  \/ Get
  \/ \E e \in E, ok \in BOOLEAN : HeadersArrive(e, ok)
  \/ \E e \in E, doc \in RepeatDocs, now \in RepeatTimes : BodyArrives(e, doc, now)
  \/ \E now \in RepeatTimes : Respond(now)
  \/ \E remember \in BOOLEAN : Return(remember)

RepeatSpec == Init /\ [][RepeatNext]_vars

(***************************************************************************)
(* The service worker, sw.js:20-35: the fetch events of the page for the   *)
(* API request.  Every event carries the same request; the responses of    *)
(* the network are numbered in the order in which they reach the worker,   *)
(* so a larger number is a more recent response.  Each action is one       *)
(* callback of the worker's event loop.                                    *)
(***************************************************************************)
\* sw.js:20-26: the page makes the request, the listener calls fetch(e.request);
\* seen is the number of the response the page was last given by the network
FetchEvent(i) ==
  /\ swEvent[i].pc = "none"
  /\ \A j \in Events : j < i => swEvent[j].pc # "none"
  /\ swEvent' = [swEvent EXCEPT ![i] = [@ EXCEPT !.pc = "fetch", !.seen = swCount]]
  /\ UNCHANGED <<hvars, feed, feedOut, prev, swCache, swPut, swCount>>

\* the cached response is preferred to the one the network gave
NetOk_CacheFirst(i) ==
  /\ swEvent[i].pc = "fetch"
  /\ swCount' = swCount + 1
  /\ swPut' = swPut \cup {swCount'}
  /\ swEvent' = [swEvent EXCEPT ![i] =
                   IF swCache # 0
                     THEN [@ EXCEPT !.pc = "done", !.net = "ok",
                                    !.from = "cache", !.res = swCache]
                     ELSE [@ EXCEPT !.pc = "done", !.net = "ok",
                                    !.from = "network", !.res = swCount']]
  /\ UNCHANGED <<hvars, feed, feedOut, prev, swCache>>

\* sw.js:27-31: fetch resolves; the callback clones the response, starts
\* caches.open(...).then(cache => cache.put(...)) without waiting for it and
\* returns the response, which respondWith hands to the page
NetOk(i) ==
  /\ swEvent[i].pc = "fetch"
  /\ swCount' = swCount + 1
  /\ swPut' = swPut \cup {swCount'}
  /\ swEvent' = [swEvent EXCEPT ![i] = [@ EXCEPT !.pc = "done", !.net = "ok",
                                                 !.from = "network", !.res = swCount']]
  /\ UNCHANGED <<hvars, feed, feedOut, prev, swCache>>

\* sw.js:32: fetch rejects; the catch callback calls caches.match(e.request)
NetFail(i) ==
  /\ swEvent[i].pc = "fetch"
  /\ swEvent' = [swEvent EXCEPT ![i] = [@ EXCEPT !.pc = "match", !.net = "fail"]]
  /\ UNCHANGED <<hvars, feed, feedOut, prev, swCache, swPut, swCount>>

\* sw.js:32: caches.match resolves with the cached response, or with undefined,
\* which respondWith turns into a network error for the page
MatchDone(i) ==
  /\ swEvent[i].pc = "match"
  /\ swEvent' = [swEvent EXCEPT ![i] =
                   IF swCache = 0
                     THEN [@ EXCEPT !.pc = "done", !.from = "nothing"]
                     ELSE [@ EXCEPT !.pc = "done", !.from = "cache", !.res = swCache]]
  /\ UNCHANGED <<hvars, feed, feedOut, prev, swCache, swPut, swCount>>

\* sw.js:29: a cache.put finishes and replaces the entry of the request
PutDone(n) ==
  /\ n \in swPut
  /\ swCache' = n
  /\ swPut' = swPut \ {n}
  /\ UNCHANGED <<hvars, feed, feedOut, prev, swEvent, swCount>>

\* sw.js:29: the put is not given to e.waitUntil, so the browser may stop the
\* worker once no event is being answered, and the unfinished puts are lost
Stopped ==
  /\ swPut # {}
  /\ \A i \in Events : swEvent[i].pc \in {"none", "done"}
  /\ swPut' = {}
  /\ UNCHANGED <<hvars, feed, feedOut, prev, swEvent, swCache, swCount>>

SwNext ==
  \/ \E i \in Events : FetchEvent(i)
  \/ \E i \in Events : NetOk(i)
  \/ \E i \in Events : NetFail(i)
  \/ \E i \in Events : MatchDone(i)
  \/ \E n \in 1..MaxEvents : PutDone(n)
  \/ Stopped

SwSpec == Init /\ [][SwNext]_vars

(***************************************************************************)
(* Vocabulary of the properties.  The normal form of a title and the       *)
(* keyword search are written here a second time, from their description,  *)
(* and tabulated over the texts that can reach an article.                 *)
(***************************************************************************)
Elems(s) == {s[i] : i \in 1..Len(s)}

Ok200 == hpc = "done" /\ response.statusCode = 200
Articles == response.body.articles
SourceLists == {response.body.grouped[s] : s \in DOMAIN response.body.grouped}
TopicLists == {response.body.topicGrouped[t] : t \in DOMAIN response.body.topicGrouped}
\* the articles of any grouped[source] or topicGrouped[topic] list
GroupedItems == UNION {Elems(l) : l \in SourceLists \cup TopicLists}
\* the articles the calls returned
Fetched(e) == Elems(results[e].value)

FoldCase(c) ==
  IF \E k \in 1..Len(Upper) : Upper[k] = c
  THEN Lower[CHOOSE k \in 1..Len(Upper) : Upper[k] = c]
  ELSE c
Folded(text) == [i \in 1..Len(text) |-> FoldCase(text[i])]
IsKeyChar(c) == (\E k \in 1..Len(Lower) : Lower[k] = c) \/ (\E k \in 1..Len(Digit) : Digit[k] = c)
NormalForm(title) ==
  LET kept == SelectSeq(Folded(title), IsKeyChar)
  IN  IF Len(kept) <= 60 THEN kept ELSE [i \in 1..60 |-> kept[i]]

HasTerm(text, term) ==
  \E i \in 1..(Len(text) - Len(term) + 1) : \A j \in 1..Len(term) : text[i + j - 1] = term[j]
TopicHits(n, text) ==
  \E k \in 1..Len(UPSC_TOPICS[n].keywords) : HasTerm(text, UPSC_TOPICS[n].keywords[k])
OnTopic(title, description) ==
  LET text == Folded(title \o <<" ">> \o description)
  IN  \/ \E n \in 1..Len(UPSC_TOPICS) : TopicHits(n, text)
      \/ HasTerm(text, <<"i","n","d","i","a">>)
      \/ HasTerm(text, <<"g","o","v","e","r","n","m","e","n","t">>)

MappedArticles ==
  {mapped[x].article : x \in {y \in DOMAIN mapped : mapped[y].tag = "article"}}
normalForm == [t \in {a.title : a \in MappedArticles} |-> NormalForm(t)]
onTopic ==
  [x \in {<<a.title, a.description>> : a \in MappedArticles} |-> OnTopic(x[1], x[2])]
matching ==
  [x \in {<<a.title, a.description>> : a \in MappedArticles} |->
     {n \in 1..Len(UPSC_TOPICS) :
        TopicHits(n, Folded(x[1] \o <<" ">> \o x[2]))}]
KeyOf(a) == normalForm[a.title]

(***************************************************************************)
(* C1.  In every 200 response, every article of a grouped[source] or       *)
(* topicGrouped[topic] list also appears, by identifier, in the top-level  *)
(* articles list; an article beyond the cut is in no group.                *)
(***************************************************************************)
C1_GroupsWithinArticles ==
  Ok200 => \A a \in GroupedItems : \E b \in Elems(Articles) : b.id = a.id

(***************************************************************************)
(* C2.  Whatever each endpoint does, a GET returns 200; an endpoint that   *)
(* failed (status, network error, timeout, malformed document) brings no   *)
(* article, every article of the other endpoints is merged into the        *)
(* result (itself, or the article that shares its key), and the result     *)
(* holds nothing else.                                                     *)
(***************************************************************************)
Failures == {"status", "neterr", "timeout", "malformed"}

C2_FaultTolerance ==
  (hpc = "done" /\ method = "GET") =>
     /\ response.statusCode = 200
     /\ \A e \in E : outcome[e] \in Failures => results[e].value = <<>>
     /\ \A e \in E : \A a \in Fetched(e) : \E b \in GroupedItems : KeyOf(b) = KeyOf(a)
     /\ \A b \in GroupedItems \cup Elems(Articles) :
           \E e \in E : outcome[e] = "ok" /\ b \in Fetched(e)
     /\ response.body.total > 0 => Articles # <<>>

C2_Witness ==
  /\ Ok200
  /\ \E e1, e2, e3 \in E :
        /\ outcome[e1] = "timeout"
        /\ outcome[e2] \in {"status", "neterr", "malformed"}
        /\ outcome[e3] = "ok" /\ Len(results[e3].value) > 1
  /\ Len(Articles) > 1

(***************************************************************************)
(* C3.  In every 200 response no two articles of the top-level list have   *)
(* titles with the same normal form (lower case, only a-z and 0-9, the     *)
(* first 60 characters).                                                   *)
(***************************************************************************)
C3_NoDuplicateKeys ==
  Ok200 => \A i, j \in 1..Len(Articles) :
              i # j => KeyOf(Articles[i]) # KeyOf(Articles[j])

\* two endpoints brought titles that differ in case, in punctuation and behind
\* the 60th character of the normal form; one of the two is listed
C3_Witness ==
  /\ Ok200
  /\ \E e1, e2 \in E : \E a \in Fetched(e1), b \in Fetched(e2) :
        /\ a.title # b.title /\ Folded(a.title) # Folded(b.title)
        /\ KeyOf(a) = KeyOf(b) /\ Len(KeyOf(a)) = 60
        /\ a \in Elems(Articles) /\ b \notin Elems(Articles)

(***************************************************************************)
(* C4.  As claimed: of the articles that share a key, the one kept comes   *)
(* from the endpoint whose call settled first.                             *)
(***************************************************************************)
Position(e) == CHOOSE i \in 1..Len(order) : order[i] = e

C5_SortedDescending ==
  Ok200 => \A i \in 1..(Len(Articles) - 1) :
              Articles[i].pubDate.t >= Articles[i + 1].pubDate.t

\* an endpoint brought an older article before a newer one, and both are listed
C5_Witness ==
  /\ Ok200
  /\ \E e \in E : \E i, j \in 1..Len(results[e].value) :
        /\ i < j
        /\ results[e].value[i].pubDate.t < results[e].value[j].pubDate.t
        /\ {results[e].value[i], results[e].value[j]} \subseteq Elems(Articles)

(***************************************************************************)
(* C6.  In every 200 response the top-level list has at most MaxArticles   *)
(* articles and at most total, and total counts the articles left after    *)
(* deduplication, before the cut: one for each key the endpoints brought.  *)
(***************************************************************************)
C6_LengthBounds ==
  Ok200 =>
     /\ Len(Articles) <= MaxArticles
     /\ Len(Articles) <= response.body.total
     /\ response.body.total =
          Cardinality({KeyOf(a) : a \in UNION {Fetched(e) : e \in E}})

\* more articles than the cut lets through
C6_Witness ==
  /\ Ok200
  /\ response.body.total > MaxArticles
  /\ Len(Articles) = MaxArticles

(***************************************************************************)
(* Entries as the properties see them: the title and description left      *)
(* after the markup is stripped, and the first date field that is present. *)
(***************************************************************************)
CleanTitle(it) == trim(stripTags(it.title))
CleanDescription(it) ==
  LET raw == IF it.description # <<>> THEN it.description
             ELSE IF it.summary # <<>> THEN it.summary
             ELSE it.contentEncoded
  IN  slice(trim(collapseSpace(stripTags(raw))), DescLen)
DateField(it) ==
  IF it.pubDate.k # "none" THEN it.pubDate
  ELSE IF it.updated.k # "none" THEN it.updated
  ELSE it.dcDate
\* the entry has a title and passes relevance
usable ==
  [it \in RawItems |->
     CleanTitle(it) # <<>> /\ OnTopic(CleanTitle(it), CleanDescription(it))]
\* the entries of a document that parseFeed looks at
Considered(doc) ==
  IF doc.shape \in {"rss", "atom"}
  THEN {doc.entries[i] : i \in 1..Min(FeedCap, Len(doc.entries))}
  ELSE {}

(***************************************************************************)
(* C7.  A usable entry whose publish date cannot be parsed is kept, with   *)
(* the current time as its publish time, and every other usable entry of   *)
(* the same document is kept too.                                          *)
(***************************************************************************)
C7_UnparseableDateDefaulted ==
  feedOut.returned =>
     \A it \in Considered(feed.doc) :
        usable[it] =>
           \E a \in Elems(feedOut.articles) :
              /\ a.title = CleanTitle(it)
              /\ DateField(it).k = "junk" => a.pubDate = DateText(feed.now)

(***************************************************************************)
(* C8.  Every GET is answered: a call whose endpoint sent the headers and  *)
(* then stalls in the body is ended by its own timeout, so the handler,    *)
(* once it waits for the calls, eventually returns.                        *)
(***************************************************************************)
C8_HandlerReturns == (hpc = "await") ~> (hpc = "done")

(***************************************************************************)
(* C9.  No article of a response (top-level list, grouped, topicGrouped)   *)
(* has a title and description that, in lower case, contain neither a      *)
(* keyword of a topic nor "india" nor "government".                        *)
(***************************************************************************)
C9_OnlyRelevant ==
  Ok200 => \A a \in Elems(Articles) \cup GroupedItems : onTopic[<<a.title, a.description>>]

\* an endpoint delivered a titled entry without keyword among those it looks
\* at, and the response lists an article of the same document
C9_Witness ==
  /\ Ok200
  /\ \E e \in E :
        /\ \E it \in Considered(served[e]) : CleanTitle(it) # <<>> /\ ~usable[it]
        /\ Fetched(e) \cap Elems(Articles) # {}

(***************************************************************************)
(* C10.  The topics of an article are the first three, at most, of the     *)
(* topics of the taxonomy that have a keyword in the lower-cased title and *)
(* description, in the order of the taxonomy; ["General"] when there is    *)
(* none.                                                                   *)
(***************************************************************************)
Matching(a) == matching[<<a.title, a.description>>]

C10_TopicLabels ==
  feedOut.returned =>
     \A a \in Elems(feedOut.articles) :
        IF Matching(a) = {} THEN a.topics = <<"General">>
        ELSE /\ Len(a.topics) = Min(3, Cardinality(Matching(a)))
             /\ \A j \in 1..Len(a.topics) :
                   \E n \in Matching(a) :
                      /\ a.topics[j] = UPSC_TOPICS[n].topic
                      /\ Cardinality({m \in Matching(a) : m < n}) = j - 1

\* one article matches two topics and carries both, another matches more than
\* three
C10_Witness ==
  /\ feedOut.returned
  /\ \E a, b \in Elems(feedOut.articles) :
        /\ Matching(a) = {1, 2}
        /\ a.topics = <<"Polity & Governance", "Economy">>
        /\ Cardinality(Matching(b)) > 3

(***************************************************************************)
(* C11.  An OPTIONS request returns 204 with an empty body and the CORS    *)
(* headers and processes nothing: no feed is requested, no parseFeed call  *)
(* is started and no result is collected.                                  *)
(***************************************************************************)
C11_OptionsNoProcessing ==
  (method = "OPTIONS") =>
     /\ hpc = "done"
     /\ response = [statusCode |-> 204, headers |-> corsHeaders, body |-> <<>>]
     /\ response.headers["Access-Control-Allow-Origin"] = "*"
     /\ \A e \in E :
          /\ requests[e] = 0
          /\ fpc[e] = "new"
          /\ ~timer[e]
          /\ results[e] = Pending
          /\ served[e] = NoDoc
     /\ order = <<>>

\* an OPTIONS request answered after a GET that fetched and answered
C11_Witness ==
  /\ method = "OPTIONS"
  /\ response.statusCode = 204
  /\ prev # NoRun
  /\ prev.body.total > 0

(***************************************************************************)
(* C12.  In every 200 response grouped has a key for every source of the   *)
(* registry, with an empty list for a source that brought no article, and  *)
(* topicGrouped has a key for a topic exactly when some article carries    *)
(* the topic: no key of topicGrouped maps to an empty list.                *)
(***************************************************************************)
\* the endpoints of a source
EndpointsOf(s) == {e \in E : Endpoints[e].source = s}

C12_GroupKeys ==
  Ok200 =>
     /\ DOMAIN response.body.grouped = SourceIds
     /\ \A s \in SourceIds :
          (\A e \in EndpointsOf(s) : results[e].value = <<>>)
             => response.body.grouped[s] = <<>>
     /\ DOMAIN response.body.topicGrouped
          = UNION {labels(a) : a \in UNION {Elems(l) : l \in SourceLists}}
     /\ \A a \in Elems(Articles) : labels(a) \subseteq DOMAIN response.body.topicGrouped
     /\ \A t \in DOMAIN response.body.topicGrouped : response.body.topicGrouped[t] # <<>>

\* a source without an article beside a source with articles of several topics
C12_Witness ==
  /\ Ok200
  /\ \E s, s2 \in SourceIds :
        /\ response.body.grouped[s] = <<>>
        /\ response.body.grouped[s2] # <<>>
  /\ Cardinality(DOMAIN response.body.topicGrouped) > 1
  /\ Cardinality(DOMAIN response.body.topicGrouped) < Len(UPSC_TOPICS)

(***************************************************************************)
(* C13.  The handler keeps nothing from one invocation to the next: a GET  *)
(* whose endpoints deliver what they delivered to an earlier GET of the    *)
(* same process returns the same articles, grouped, topicGrouped and total *)
(* as that GET, but for lastUpdated and for the timestamps of the entries  *)
(* that have no date.                                                      *)
(***************************************************************************)
\* a list of articles without their timestamps
Undated(list) == [i \in 1..Len(list) |-> [list[i] EXCEPT !.pubDate = NoDate]]
\* a response body without lastUpdated and without the timestamps
Timeless(body) ==
  [articles     |-> Undated(body.articles),
   grouped      |-> [s \in DOMAIN body.grouped |-> Undated(body.grouped[s])],
   topicGrouped |-> [t \in DOMAIN body.topicGrouped |-> Undated(body.topicGrouped[t])],
   total        |-> body.total]
\* a GET has answered and an earlier GET of the process is remembered
Again == Ok200 /\ prev # NoRun

\* the claim as stated: the same documents give the same lists
C13_SameFeedsSameResponse ==
  (Again /\ prev.served = served) => Timeless(response.body) = Timeless(prev.body)

\* as amended: the same documents give the same total and the same members of
\* every group, and with the same defaulted timestamps too (the calls returned
\* the same lists) the same response but for lastUpdated
C13_SameFeedsSameMembers ==
  /\ (Again /\ prev.served = served) =>
        /\ response.body.total = prev.body.total
        /\ DOMAIN response.body.grouped = DOMAIN prev.body.grouped
        /\ DOMAIN response.body.topicGrouped = DOMAIN prev.body.topicGrouped
        /\ \A s \in DOMAIN response.body.grouped :
              Elems(Undated(response.body.grouped[s])) = Elems(Undated(prev.body.grouped[s]))
        /\ \A t \in DOMAIN response.body.topicGrouped :
              Elems(Undated(response.body.topicGrouped[t]))
                = Elems(Undated(prev.body.topicGrouped[t]))
  /\ (Again /\ prev.served = served /\ prev.results = results) =>
        [response.body EXCEPT !.lastUpdated = NoDate]
          = [prev.body EXCEPT !.lastUpdated = NoDate]

\* two GETs of one process given the same documents, whose entries, without a
\* date, were parsed at other instants in the one than in the other
C13_Witness ==
  /\ Again
  /\ prev.served = served
  /\ prev.results # results
  /\ response.body.total > 1
  /\ response.body.lastUpdated # prev.body.lastUpdated

(***************************************************************************)
(* C14.  For an API request the service worker answers with the response   *)
(* of the network whenever the fetch succeeds and looks into the cache     *)
(* only when the fetch has failed: no API request whose fetch succeeded is *)
(* answered from the cache.                                                *)
(***************************************************************************)
C14_NetworkFirst ==
  \A i \in Events :
     /\ swEvent[i].net = "ok" =>
          /\ swEvent[i].pc = "done"
          /\ swEvent[i].from = "network"
          /\ swEvent[i].res > swEvent[i].seen
     /\ swEvent[i].pc = "match" => swEvent[i].net = "fail"
     /\ swEvent[i].from \in {"cache", "nothing"} => swEvent[i].net = "fail"
     /\ swEvent[i].from = "cache" => swEvent[i].res # 0

\* a request answered by the network while the cache holds an older response,
\* and a request answered from the cache
C14_Witness ==
  \E i, j \in Events :
     /\ swEvent[i].from = "network"
     /\ swCache # 0
     /\ swCache < swEvent[i].res
     /\ swEvent[j].from = "cache"

(***************************************************************************)
(* C15.  The merge, the deduplication, the sort and the grouping start     *)
(* only when every parseFeed call has settled: no response exists while a  *)
(* call is pending, and the step of a call writes its own result and       *)
(* nothing of the other calls or of the response.                          *)
(***************************************************************************)
\* the step of the call of endpoint e
StepOf(e) == fpc'[e] # fpc[e] /\ hpc = "await"

C15_MergeAfterAllSettled ==
  /\ [](response.statusCode = 200 =>
          \A e \in E : fpc[e] = "settled" /\ results[e].status = "fulfilled")
  /\ [][\A e \in E : StepOf(e) =>
          /\ response' = response
          /\ hpc' = hpc
          /\ \A f \in E \ {e} : results'[f] = results[f] /\ fpc'[f] = fpc[f]]_vars

\* a response made of the articles of two calls that settled against the
\* order of the registry
C15_Witness ==
  /\ Ok200
  /\ order = <<3, 1, 2>>
  /\ results[1].value # <<>>
  /\ results[3].value # <<>>
  /\ response.body.total > 1

(***************************************************************************)
(* C16.  Within one invocation every endpoint of the registry is requested *)
(* exactly once: an endpoint that failed or timed out is not requested     *)
(* again and brings no article.                                            *)
(***************************************************************************)
C16_RequestedOnce ==
  (method = "GET") =>
     /\ \A e \in E : requests[e] = 1
     /\ \A e \in E : outcome[e] \in Failures =>
          /\ fpc[e] = "settled"
          /\ results[e].value = <<>>
     /\ Ok200 => \A a \in GroupedItems \cup Elems(Articles) :
                    \E e \in E : outcome[e] \notin Failures /\ a \in Fetched(e)

\* a timed-out endpoint and a failed one beside one that brought articles
C16_Witness ==
  /\ Ok200
  /\ \E e, f, g \in E :
        /\ outcome[e] = "timeout"
        /\ outcome[f] = "neterr"
        /\ outcome[g] = "ok"
        /\ results[g].value # <<>>
  /\ \A e \in E : requests[e] = 1

(***************************************************************************)
(* C17.  One endpoint brings at most FeedCap articles (20 in the program)  *)
(* to the merge, and an entry whose title is empty once its tags are       *)
(* stripped brings none, however many entries the document has.            *)
(***************************************************************************)
C17_FeedBounded ==
  feedOut.returned =>
     /\ Len(feedOut.articles) <= FeedCap
     /\ \A a \in Elems(feedOut.articles) :
          /\ a.title # <<>>
          /\ \E it \in Considered(feed.doc) :
                CleanTitle(it) = a.title /\ CleanTitle(it) # <<>>
     /\ Cardinality(Elems(feedOut.articles))
          <= Cardinality({it \in Considered(feed.doc) : CleanTitle(it) # <<>>})

\* a document of more than FeedCap entries, one of them without a title, whose
\* other entries are kept
C17_Witness ==
  /\ feedOut.returned
  /\ Len(feed.doc.entries) > FeedCap
  /\ feed.doc.entries[1] = Untitled
  /\ Len(feedOut.articles) = FeedCap - 1
  /\ usable[feed.doc.entries[Len(feed.doc.entries)]]

(***************************************************************************)
(* C18.  In every 200 response every article of the top-level list is      *)
(* once in the list of its source and once in the list of each topic it    *)
(* carries; the list of a source holds articles of that source only and    *)
(* the list of a topic articles that carry the topic.                      *)
(***************************************************************************)
\* how many times x is in the list
Count(list, x) == Cardinality({i \in 1..Len(list) : list[i] = x})

C18_GroupMembership ==
  Ok200 =>
     /\ \A a \in Elems(Articles) :
          /\ a.source \in DOMAIN response.body.grouped
          /\ Count(response.body.grouped[a.source], a) = 1
          /\ \A t \in labels(a) :
               /\ t \in DOMAIN response.body.topicGrouped
               /\ Count(response.body.topicGrouped[t], a) = 1
     /\ \A s \in DOMAIN response.body.grouped :
          \A a \in Elems(response.body.grouped[s]) : a.source = s
     /\ \A t \in DOMAIN response.body.topicGrouped :
          \A a \in Elems(response.body.topicGrouped[t]) : t \in labels(a)

\* an article of two topics beside an article of another source
C18_Witness ==
  /\ Ok200
  /\ \E a, b \in Elems(Articles) :
        /\ Len(a.topics) > 1
        /\ b.source # a.source
        /\ Count(response.body.topicGrouped[a.topics[2]], a) = 1

(***************************************************************************)
(* C19.  Once the service worker has given the page a response of the      *)
(* network for the API request, a later request whose fetch fails is       *)
(* answered from the cache, with that response or a more recent one: never *)
(* with an older response and never with none, however the cache write     *)
(* falls among the later fetch events.                                     *)
(***************************************************************************)
C19_FallbackIsLatest ==
  \A i \in Events :
     (swEvent[i].pc = "done" /\ swEvent[i].net = "fail" /\ swEvent[i].seen > 0) =>
        /\ swEvent[i].from = "cache"
        /\ swEvent[i].res >= swEvent[i].seen

====
